---- MODULE Spec2Model ----
(***************************************************************************)
(* Model of the sonosco Listen-Attend-Spell decoder                        *)
(* (src/sonosco/models/seq2seq_las.py: Decoder.recognize_beam and          *)
(* Decoder.forward) and of the bootstrap evaluator                         *)
(* (src/sonosco/training/evaluator.py: ModelEvaluator).                    *)
(*                                                                         *)
(* The neural network is a black box: for a hypothesis prefix it yields a  *)
(* vector of log-probabilities over the vocabulary (local_scores).  The    *)
(* model draws that vector nondeterministically for every decoder query.   *)
(***************************************************************************)
EXTENDS Integers, Sequences, FiniteSets

\* ------------------------------------------------------------------ bounds
MaxBeam == 2
MaxNBest == 2
MaxDecodeLen == 3
MaxEncLen == 2
\* Cap on beam * maxlen, the number of hypothesis slots a run expands.
MaxWork == 6
MaxBatch == 2
MaxTargetLen == 2
MaxBootstraps == 5
MaxBootstrapSize == 10
MaxDataset == 2
\* With more than one example in the dataset the draws differ from run to run;
\* such datasets are explored up to this many bootstraps and samples each.
MaxVaried == 3
MaxCalls == 2

\* --------------------------------------------------------- program constants
\* IGNORE_ID, the padding value of target sequences.
IGNORE_ID == -1
\* Token ids of char_list = labels + EOS + SOS with one label, 0:
\* char_list.index(SOS), char_list.index(EOS).
sos_id == 2
eos_id == 1
Vocab == {0, sos_id, eos_id}
\* Sample values of log_softmax, all negative: log-probabilities as integers.
LogProbs == {0 - 3, 0 - 2, 0 - 1}

VARIABLES
    \* Decoder.recognize_beam
    beam, nbest, decode_max_len, enc_len, maxlen, i, hyps, hyp_idx, hyps_best_kept,
    ended_hyps, nbest_hyps, bpc,
    \* the working lists of the per-layer hidden and cell tensors
    h_list, c_list,
    \* observation: whether some topk so far held the end token
    eos_in_topk,
    \* Decoder.forward
    padded_input, ys_in_pad, ys_out_pad, y_lens, y_all, t, model_out, fpc,
    \* ModelEvaluator: fields
    num_bootstraps, bootstrap_size, metrics, _current_bootstrap_step,
    _evaluation_done, eval_dict,
    \* ModelEvaluator: collaborators (dataset behind the data loader, the model,
    \* torch's gradient mode, the file evaluation.json)
    dataset_size, model_training, grad_enabled, evaluation_file,
    \* ModelEvaluator: locals of the running call and its position
    mean_dict, running_metrics, bootstrap_step, sample_step, entry, epc,
    \* observations: samples drawn in the current bootstrap iteration, and the
    \* calls the user has made with their outcomes
    drawn, calls

beam_vars == <<beam, nbest, decode_max_len, enc_len, maxlen, i, hyps, hyp_idx, hyps_best_kept,
               ended_hyps, nbest_hyps, bpc, h_list, c_list, eos_in_topk>>

fwd_vars == <<padded_input, ys_in_pad, ys_out_pad, y_lens, y_all, t, model_out, fpc>>

eval_config == <<num_bootstraps, bootstrap_size, metrics, dataset_size>>

eval_vars == <<eval_config, _current_bootstrap_step, _evaluation_done, eval_dict,
               model_training, grad_enabled, evaluation_file, mean_dict,
               running_metrics, bootstrap_step, sample_step, entry, epc, drawn, calls>>

vars == <<beam_vars, fwd_vars, eval_vars>>

\* ------------------------------------------------------------------ helpers
Max(S) == CHOOSE x \in S : \A y \in S : y <= x

Min2(a, b) == IF a <= b THEN a ELSE b

\* seq[:n]
Take(seq, n) == SubSeq(seq, 1, Min2(n, Len(seq)))

\* Python's sorted(xs, key=lambda x: x['score'], reverse=True): a stable sort,
\* elements of equal score keep their order.  Insertion of x behind every element
\* whose score is >= x.score.
RECURSIVE InsertDesc(_, _)
InsertDesc(sorted, x) ==
    IF sorted = <<>> THEN <<x>>
    ELSE IF Head(sorted).score >= x.score
         THEN <<Head(sorted)>> \o InsertDesc(Tail(sorted), x)
         ELSE <<x>> \o sorted

RECURSIVE SortedDesc(_)
SortedDesc(xs) ==
    IF xs = <<>> THEN <<>>
    ELSE InsertDesc(SortedDesc(SubSeq(xs, 1, Len(xs) - 1)), xs[Len(xs)])

\* Variant of topk that ranks from the lowest score.
TopKLowest(local_scores, k) ==
    {r \in [1..k -> Vocab] :
        /\ \A a, b \in 1..k : a < b => r[a] # r[b] /\ local_scores[r[a]] <= local_scores[r[b]]
        /\ \A v \in Vocab \ {r[a] : a \in 1..k} : local_scores[v] >= local_scores[r[k]]}

\* torch.topk(local_scores, k): k distinct ids in non-increasing score order, no
\* id left out scores higher than one taken.  The order among equal scores is
\* not specified by torch, so every admissible ranking is an outcome.
TopK(local_scores, k) ==
    {r \in [1..k -> Vocab] :
        /\ \A a, b \in 1..k : a < b => r[a] # r[b] /\ local_scores[r[a]] >= local_scores[r[b]]
        /\ \A v \in Vocab \ {r[a] : a \in 1..k} : local_scores[v] <= local_scores[r[k]]}

\* Objects are modelled by their identity.  The tensors of a decoder step, one
\* per layer, are named by the hypothesis the step ran on, which its token
\* sequence names; the tensors of zero_state by the empty sequence.  A list of
\* per-layer tensors is either a working list of the call, "h_list" or "c_list",
\* or a copy made for one hypothesis, "h_list[:]" or "c_list[:]".

\* [self.zero_state(...)] + the appends of `for l in range(1, self.num_layers)`.
ZeroStates == <<>>

\* h_list[l], c_list[l] = self.rnn[l](...) for every layer l.
RnnOut(hyp) == hyp.yseq

\* att_c, att_w = self.attention(...); att_c = att_c.squeeze(dim=1)
AttOut(hyp) == hyp.yseq

\* The assignments h_list[l], c_list[l] = ... seen through every hypothesis whose
\* h_prev or c_prev is the working list itself.
WriteThrough(hs, h, c) ==
    [p \in 1..Len(hs) |->
        [hs[p] EXCEPT
            !.h_prev = IF @.obj = "h_list" THEN [@ EXCEPT !.items = h] ELSE @,
            !.c_prev = IF @.obj = "c_list" THEN [@ EXCEPT !.items = c] ELSE @]]

\* Variant: the new token written over the parent's last token.
NewHypOverwrite(hyp, local_scores, id) ==
    [score |-> hyp.score + local_scores[id],
     yseq |-> SubSeq(hyp.yseq, 1, Len(hyp.yseq) - 1) \o <<id>>,
     argmax_path |-> hyp.argmax_path /\ local_scores[id] = Max({local_scores[v] : v \in Vocab}),
     gen |-> hyp.gen + 1,
     h_prev |-> [obj |-> "h_list[:]", items |-> RnnOut(hyp)],
     c_prev |-> [obj |-> "c_list[:]", items |-> RnnOut(hyp)],
     a_prev |-> [obj |-> "att_c[:]", storage |-> AttOut(hyp)]]

\* The hypothesis built in the body of `for j in range(beam)`.  argmax_path and
\* gen are observations of the run, not fields of the program's dict: whether
\* every token the model chose so far had the highest local score of its step,
\* and the generation index, the number of decode steps that produced it.
NewHyp(hyp, local_scores, id) ==
    [score |-> hyp.score + local_scores[id],
     yseq |-> Append(hyp.yseq, id),
     argmax_path |-> hyp.argmax_path /\ local_scores[id] = Max({local_scores[v] : v \in Vocab}),
     gen |-> hyp.gen + 1,
     h_prev |-> [obj |-> "h_list[:]", items |-> RnnOut(hyp)],
     c_prev |-> [obj |-> "c_list[:]", items |-> RnnOut(hyp)],
     a_prev |-> [obj |-> "att_c[:]", storage |-> AttOut(hyp)]]

\* for j in range(beam): hyps_best_kept.append(new_hyp)
Children(hyp, local_scores, ranking) ==
    [j \in 1..Len(ranking) |-> NewHyp(hyp, local_scores, ranking[j])]

\* Variant: the candidates sorted but not cut to the beam width.
PruneKeepAll(kept, b) == SortedDesc(kept)

\* sorted(hyps_best_kept, key=score, reverse=True)[:beam]
Prune(kept, b) == Take(SortedDesc(kept), b)

\* Variants of the forced end token: none at all, and the end token written over
\* the last token instead of appended.
ForceEosNever(hs, last) == hs

ForceEosReplace(hs, last) ==
    IF last
    THEN [p \in 1..Len(hs) |->
            [hs[p] EXCEPT !.yseq = SubSeq(@, 1, Len(@) - 1) \o <<eos_id>>]]
    ELSE hs

\* if i == maxlen - 1: for hyp in hyps: hyp['yseq'].append(self.eos_id)
ForceEos(hs, last) ==
    IF last THEN [p \in 1..Len(hs) |-> [hs[p] EXCEPT !.yseq = Append(@, eos_id)]]
    ELSE hs

Ended(hyp) == hyp.yseq[Len(hyp.yseq)] = eos_id

\* The hypotheses of hs, in order, that satisfy (or not) Ended.
RECURSIVE Filter(_, _)
Filter(hs, wantEnded) ==
    IF hs = <<>> THEN <<>>
    ELSE IF Ended(Head(hs)) = wantEnded
         THEN <<Head(hs)>> \o Filter(Tail(hs), wantEnded)
         ELSE Filter(Tail(hs), wantEnded)

\* Variant: the cut without the sort.
NBestOfUnsorted(ended, n) == Take(ended, Min2(Len(ended), n))

\* sorted(ended_hyps, key=score, reverse=True)[:min(len(ended_hyps), nbest)]
NBestOf(ended, n) == Take(SortedDesc(ended), Min2(Len(ended), n))

\* --------------------------------------------- Decoder.recognize_beam
\* No evaluator exists.
EvalOff ==
    /\ num_bootstraps = 0 /\ bootstrap_size = 0 /\ metrics = <<>> /\ dataset_size = 0
    /\ _current_bootstrap_step = "None" /\ _evaluation_done = FALSE
    /\ eval_dict = "unset" /\ model_training = TRUE /\ grad_enabled = TRUE
    /\ evaluation_file = "absent" /\ mean_dict = <<>> /\ running_metrics = <<>>
    /\ bootstrap_step = 0 /\ sample_step = 0 /\ entry = "none" /\ epc = "off"
    /\ drawn = 0 /\ calls = <<>>

\* No forward pass is running.
ForwardOff ==
    /\ padded_input = <<>> /\ ys_in_pad = <<>> /\ ys_out_pad = <<>> /\ y_lens = <<>>
    /\ y_all = <<>> /\ t = 0 /\ model_out = <<>> /\ fpc = "off"

\* No beam search is running.
BeamOff ==
    /\ beam = 0 /\ nbest = 0 /\ decode_max_len = 0 /\ enc_len = 0 /\ maxlen = 0
    /\ i = 0 /\ hyp_idx = 0 /\ h_list = <<>> /\ c_list = <<>>
    /\ hyps = <<>> /\ hyps_best_kept = <<>> /\ ended_hyps = <<>> /\ nbest_hyps = <<>>
    /\ bpc = "off" /\ eos_in_topk = FALSE

\* Variant: the cap taken as given, 0 included.
MaxlenOfCapOnly(cap, length) == cap

\* maxlen: decode_max_len, or the encoder output length when that is 0.
MaxlenOf(cap, length) == IF cap = 0 THEN length ELSE cap

BeamStart ==
    /\ beam \in 1..MaxBeam
    /\ nbest \in 1..MaxNBest
    /\ decode_max_len \in 0..MaxDecodeLen
    /\ enc_len \in 1..MaxEncLen
    \* the utterance length is read only for the cap 0: one length with a cap
    /\ decode_max_len # 0 => enc_len = MaxEncLen
    /\ maxlen = MaxlenOf(decode_max_len, enc_len)
    /\ beam * maxlen <= MaxWork
    /\ i = 0
    /\ h_list = ZeroStates
    /\ c_list = ZeroStates
    /\ hyps = <<[score |-> 0, yseq |-> <<sos_id>>, argmax_path |-> TRUE, gen |-> 0,
                 h_prev |-> [obj |-> "h_list", items |-> h_list],
                 c_prev |-> [obj |-> "c_list", items |-> c_list],
                 a_prev |-> [obj |-> "att_c", storage |-> ZeroStates]]>>
    /\ hyp_idx = 0
    /\ hyps_best_kept = <<>>
    /\ ended_hyps = <<>>
    /\ nbest_hyps = <<>>
    /\ bpc = "loop"
    /\ eos_in_topk = FALSE

\* One iteration of `for hyp in hyps`: the decoder step on the hypothesis, topk,
\* the beam children, and the sort-and-cut of hyps_best_kept.
Expand ==
    /\ bpc = "loop"
    /\ i < maxlen
    /\ hyp_idx < Len(hyps)
    /\ \E local_scores \in [Vocab -> LogProbs] :
         \E ranking \in TopK(local_scores, beam) :
            /\ hyps_best_kept' =
                  Prune(hyps_best_kept \o Children(hyps[hyp_idx + 1], local_scores, ranking), beam)
            /\ eos_in_topk' = (eos_in_topk \/ \E j \in 1..beam : ranking[j] = eos_id)
    /\ h_list' = RnnOut(hyps[hyp_idx + 1])
    /\ c_list' = RnnOut(hyps[hyp_idx + 1])
    /\ hyps' = WriteThrough(hyps, h_list', c_list')
    /\ hyp_idx' = hyp_idx + 1
    /\ UNCHANGED <<beam, nbest, decode_max_len, enc_len, maxlen, i, ended_hyps, nbest_hyps, bpc,
                   fwd_vars, eval_vars>>

\* After `for hyp in hyps`: the forced end token of the last step, and the
\* partition into ended and remaining hypotheses.
EndStep ==
    /\ bpc = "loop"
    /\ i < maxlen
    /\ hyp_idx = Len(hyps)
    /\ LET forced == ForceEos(hyps_best_kept, i = maxlen - 1)
       IN /\ ended_hyps' = ended_hyps \o Filter(forced, TRUE)
          /\ hyps' = Filter(forced, FALSE)
    /\ hyps_best_kept' = <<>>
    /\ hyp_idx' = 0
    /\ i' = i + 1
    /\ UNCHANGED <<beam, nbest, decode_max_len, enc_len, maxlen, nbest_hyps, bpc, h_list, c_list,
                   eos_in_topk, fwd_vars, eval_vars>>

\* After `for i in range(maxlen)`: sort, cut, return.
Return ==
    /\ bpc = "loop"
    /\ i = maxlen
    /\ nbest_hyps' = NBestOf(ended_hyps, nbest)
    /\ bpc' = "done"
    /\ UNCHANGED <<beam, nbest, decode_max_len, enc_len, maxlen, i, hyps, hyp_idx, hyps_best_kept,
                   ended_hyps, h_list, c_list, eos_in_topk, fwd_vars, eval_vars>>

NextBeam == Expand \/ EndStep \/ Return

InitBeam == BeamStart /\ ForwardOff /\ EvalOff

SpecBeam == InitBeam /\ [][NextBeam]_vars

\* ------------------------------------------------------ Decoder.forward
\* Variant of the parse that keeps the padding.
ParseKeepPadding(y) == y

\* y[y != IGNORE_ID]
Parse(y) == SelectSeq(y, LAMBDA x : x # IGNORE_ID)

\* torch.cat([sos, y]), torch.cat([y, eos])
YsIn(y) == <<sos_id>> \o y

YsOut(y) == y \o <<eos_id>>

\* pad_list(xs, pad_value): a len(xs) x max_len matrix filled with pad_value, row
\* n overwritten from its start with xs[n].
pad_list(xs, pad_value) ==
    LET max_len == Max({Len(xs[n]) : n \in 1..Len(xs)})
    IN [n \in 1..Len(xs) |->
          [p \in 1..max_len |-> IF p <= Len(xs[n]) THEN xs[n][p] ELSE pad_value]]

\* tensor.size() of a two-dimensional tensor
Size(m) == <<Len(m), Len(m[1])>>

\* torch.stack(y_all, dim=1): an N x To tensor from To tensors of N entries
Stack(ys, n_batch) == [n \in 1..n_batch |-> [p \in 1..Len(ys) |-> ys[p][n]]]

\* The padded target batch: N rows of To entries, each a token or IGNORE_ID.
ForwardStart ==
    /\ \E n_batch \in 1..MaxBatch, to \in 0..MaxTargetLen :
          padded_input \in [1..n_batch -> [1..to -> {IGNORE_ID, 0, sos_id}]]
    /\ ys_in_pad = <<>> /\ ys_out_pad = <<>> /\ y_lens = <<>>
    /\ y_all = <<>> /\ t = 0 /\ model_out = <<>>
    /\ fpc = "start"

\* Lines 164-178: parse the padded targets, add sos/eos, pad, assert equal sizes.
Prepare ==
    /\ fpc = "start"
    /\ LET ys == [n \in 1..Len(padded_input) |-> Parse(padded_input[n])]
           ys_in == [n \in 1..Len(ys) |-> YsIn(ys[n])]
           ys_out == [n \in 1..Len(ys) |-> YsOut(ys[n])]
           in_pad == pad_list(ys_in, eos_id)
           out_pad == pad_list(ys_out, IGNORE_ID)
       IN /\ y_lens' = [n \in 1..Len(ys_in) |-> Len(ys_in[n])]
          /\ ys_in_pad' = in_pad
          /\ ys_out_pad' = out_pad
          /\ fpc' = IF Size(in_pad) = Size(out_pad) THEN "decode" ELSE "AssertionError"
    /\ t' = 0
    /\ y_all' = <<>>
    /\ UNCHANGED <<padded_input, model_out, beam_vars, eval_vars>>

\* One iteration of `for t in range(output_length)`: the step consumes column t
\* of the embedded input; its prediction is recorded as that column.
DecodeStep ==
    /\ fpc = "decode"
    /\ t < Size(ys_in_pad)[2]
    /\ y_all' = Append(y_all, [n \in 1..Len(ys_in_pad) |-> ys_in_pad[n][t + 1]])
    /\ t' = t + 1
    /\ UNCHANGED <<padded_input, ys_in_pad, ys_out_pad, y_lens, model_out, fpc, beam_vars, eval_vars>>

\* After the loop: stack the predictions and return (model_out, y_lens, loss).
ForwardReturn ==
    /\ fpc = "decode"
    /\ t = Size(ys_in_pad)[2]
    /\ model_out' = Stack(y_all, Len(ys_in_pad))
    /\ fpc' = "returned"
    /\ UNCHANGED <<padded_input, ys_in_pad, ys_out_pad, y_lens, y_all, t, beam_vars, eval_vars>>

NextForward == Prepare \/ DecodeStep \/ ForwardReturn

InitForward == ForwardStart /\ BeamOff /\ EvalOff

SpecForward == InitForward /\ [][NextForward]_vars

\* ------------------------------------------------------- ModelEvaluator
MetricNames == {"constant_one", "word_error_rate"}

\* The metric lists explored: none, one metric, both.
MetricLists ==
    {<<>>, <<"constant_one">>, <<"word_error_rate">>, <<"constant_one", "word_error_rate">>}

Names(ms) == {ms[p] : p \in 1..Len(ms)}

\* The metric functions: pure functions of the model output for a sample.
\* constant_one always yields 1; word_error_rate yields 0 on the first example
\* of the dataset and 1 on any other.
MetricResult(name, sample) ==
    IF name = "constant_one" THEN 1
    ELSE IF sample = 1 THEN 0 ELSE 1

\* self._recursive_to_cuda(batch) and self._train_on_batch(batch), lines 57-58:
\* the evaluator's model invocation.  Neither method is defined in the class;
\* they are taken as the model-invocation boundary: the batch is passed on
\* and the model's output for it comes back (here, the sample it was run on).
_recursive_to_cuda(batch) == batch

_train_on_batch(batch) == batch

RECURSIVE Sum(_)
Sum(xs) == IF xs = <<>> THEN 0 ELSE Head(xs) + Sum(Tail(xs))

RECURSIVE GCD(_, _)
GCD(a, b) == IF b = 0 THEN a ELSE GCD(b, a % b)

\* The quotient num / den of two naturals, den > 0, as a fraction in lowest terms.
Quotient(num, den) ==
    LET g == GCD(num, den) IN [num |-> num \div g, den |-> den \div g]

\* Variant: a fresh bootstrap iteration that keeps the accumulated values.
RunningMetricsKept(ms) ==
    [m \in Names(ms) |-> IF m \in DOMAIN running_metrics THEN running_metrics[m] ELSE <<>>]

\* {metric.__name__: [] for metric in self.metrics}
EmptyMetricDict(ms) == [m \in Names(ms) |-> <<>>]

\* _compute_running_metrics: every metric's result for the sample is appended to
\* its list (both branches of the name dispatch call the metric once).
_compute_running_metrics(running, ms, model_output) ==
    [m \in DOMAIN running |->
        IF m \in Names(ms)
        THEN Append(running[m], MetricResult(m, model_output))
        ELSE running[m]]

\* Variant: the iteration's mean replaces the entry instead of being appended.
FillMeanDictOverwrite(running, means) ==
    [m \in DOMAIN means |->
        IF m \in DOMAIN running
        THEN <<Quotient(Sum(running[m]), Len(running[m]))>>
        ELSE means[m]]

\* _fill_mean_dict: mean = sum(value) / len(value); mean_dict[key].append(mean).
\* Applied only when no list is empty (see FillRaises).
_fill_mean_dict(running, means) ==
    [m \in DOMAIN means |->
        IF m \in DOMAIN running
        THEN Append(means[m], Quotient(Sum(running[m]), Len(running[m])))
        ELSE means[m]]

\* sum(value) / len(value) raises ZeroDivisionError on an empty list.
FillRaises(running) == \E m \in DOMAIN running : Len(running[m]) = 0

\* The call self._compute_mean_variance(mean_dict) with n_args arguments beside
\* self.  The method is declared with self alone, so any argument is a TypeError;
\* called without one it reads self._mean_dict, an attribute nothing assigns.
_compute_mean_variance(n_args) ==
    IF n_args # 0 THEN "TypeError" ELSE "AttributeError"

\* State after construction (__post_init__).
EvalStart ==
    /\ num_bootstraps \in 0..MaxBootstraps
    /\ bootstrap_size \in 0..MaxBootstrapSize
    /\ dataset_size \in 1..MaxDataset
    /\ dataset_size = 1 \/ (num_bootstraps <= MaxVaried /\ bootstrap_size <= MaxVaried)
    /\ metrics \in MetricLists
    /\ _current_bootstrap_step = "None"
    /\ _evaluation_done = FALSE
    /\ eval_dict = "unset"
    /\ model_training = TRUE
    /\ grad_enabled = TRUE
    /\ evaluation_file = "absent"
    /\ mean_dict = <<>> /\ running_metrics = <<>>
    /\ bootstrap_step = 0 /\ sample_step = 0
    /\ entry = "none" /\ epc = "idle"
    /\ drawn = 0 /\ calls = <<>>

\* The running call ends by raising exc: its locals are gone, nothing is written.
Raise(exc) ==
    /\ calls' = Append(calls, [op |-> entry, outcome |-> exc, ran_evaluation |-> TRUE,
                               wrote |-> "nothing", done_before |-> _evaluation_done,
                               done_after |-> _evaluation_done])
    /\ entry' = "none"
    /\ epc' = "idle"
    /\ mean_dict' = <<>> /\ running_metrics' = <<>>
    /\ bootstrap_step' = 0 /\ sample_step' = 0 /\ drawn' = 0

\* start_evaluation, lines 105-106: model.eval(), the empty mean dictionary.
BeginEvaluation(op) ==
    /\ entry' = op
    /\ model_training' = FALSE
    /\ mean_dict' = EmptyMetricDict(metrics)
    /\ bootstrap_step' = 0
    /\ epc' = "bootstrap"
    /\ UNCHANGED <<eval_config, _current_bootstrap_step, _evaluation_done, eval_dict,
                   grad_enabled, evaluation_file, running_metrics, sample_step,
                   drawn, calls>>

\* The user calls start_evaluation().
CallStartEvaluation ==
    /\ epc = "idle"
    /\ Len(calls) < MaxCalls
    /\ BeginEvaluation("start_evaluation")
    /\ UNCHANGED <<beam_vars, fwd_vars>>

\* The user calls dump_evaluation(output_path).  With _evaluation_done False the
\* evaluation starts; otherwise the method has nothing left to do: the write is
\* inside the `if`.
CallDumpEvaluation ==
    /\ epc = "idle"
    /\ Len(calls) < MaxCalls
    /\ IF _evaluation_done = FALSE
       THEN BeginEvaluation("dump_evaluation")
       ELSE /\ calls' = Append(calls, [op |-> "dump_evaluation", outcome |-> "returned",
                                       ran_evaluation |-> FALSE, wrote |-> "nothing",
                                       done_before |-> _evaluation_done,
                                       done_after |-> _evaluation_done])
            /\ UNCHANGED <<eval_config, _current_bootstrap_step, _evaluation_done,
                           eval_dict, model_training, grad_enabled, evaluation_file,
                           mean_dict, running_metrics, bootstrap_step, sample_step,
                           entry, epc, drawn>>
    /\ UNCHANGED <<beam_vars, fwd_vars>>

\* Head of `for bootstrap_step in range(self.num_bootstraps)` and the start of
\* _bootstrap_step: torch.no_grad() builds a context manager that is never
\* entered, so the gradient mode stays as it was; running_metrics starts empty.
BootstrapBegin ==
    /\ epc = "bootstrap"
    /\ IF bootstrap_step < num_bootstraps
       THEN /\ _current_bootstrap_step' = bootstrap_step
            /\ running_metrics' = EmptyMetricDict(metrics)
            /\ sample_step' = 0
            /\ drawn' = 0
            /\ epc' = "sample"
       ELSE /\ epc' = "compute"
            /\ UNCHANGED <<_current_bootstrap_step, running_metrics, sample_step, drawn>>
    /\ UNCHANGED <<eval_config, _evaluation_done, eval_dict, model_training, grad_enabled,
                   evaluation_file, mean_dict, bootstrap_step, entry, calls,
                   beam_vars, fwd_vars>>

\* One iteration of `for sample_step in range(self.bootstrap_size)`:
\* next(iter(self.data_loader)) draws one example with replacement, the model is
\* run on it, and every metric's result is appended.
SampleStep ==
    /\ epc = "sample"
    /\ sample_step < bootstrap_size
    /\ \E sample \in 1..dataset_size :
          running_metrics' =
              _compute_running_metrics(running_metrics, metrics,
                                       _train_on_batch(_recursive_to_cuda(sample)))
    /\ drawn' = drawn + 1
    /\ sample_step' = sample_step + 1
    /\ UNCHANGED <<eval_config, _current_bootstrap_step, _evaluation_done, eval_dict,
                   model_training, grad_enabled, evaluation_file, mean_dict,
                   bootstrap_step, entry, epc, calls, beam_vars, fwd_vars>>

\* After the sample loop: _fill_mean_dict(running_metrics, mean_dict).
FillMeanDict ==
    /\ epc = "sample"
    /\ sample_step = bootstrap_size
    /\ IF FillRaises(running_metrics)
       THEN /\ Raise("ZeroDivisionError")
            /\ UNCHANGED <<eval_config, _current_bootstrap_step, _evaluation_done,
                           eval_dict, model_training, grad_enabled, evaluation_file>>
       ELSE /\ mean_dict' = _fill_mean_dict(running_metrics, mean_dict)
            /\ bootstrap_step' = bootstrap_step + 1
            /\ epc' = "bootstrap"
            /\ UNCHANGED <<eval_config, _current_bootstrap_step, _evaluation_done,
                           eval_dict, model_training, grad_enabled, evaluation_file,
                           running_metrics, sample_step, entry, drawn, calls>>
    /\ UNCHANGED <<beam_vars, fwd_vars>>

\* After the bootstrap loop, line 111: self._compute_mean_variance(mean_dict).
\* Had the call returned, line 112 would set _evaluation_done and, in
\* dump_evaluation, lines 118-120 would write eval_dict to evaluation.json.
ComputeMeanVariance ==
    /\ epc = "compute"
    /\ LET outcome == _compute_mean_variance(1)
       IN IF outcome # "returned"
          THEN /\ Raise(outcome)
               /\ UNCHANGED <<eval_config, _current_bootstrap_step, _evaluation_done,
                              eval_dict, model_training, grad_enabled, evaluation_file>>
          ELSE /\ _evaluation_done' = TRUE
               /\ evaluation_file' = IF entry = "dump_evaluation" THEN eval_dict
                                     ELSE evaluation_file
               /\ calls' = Append(calls, [op |-> entry, outcome |-> "returned",
                                          ran_evaluation |-> TRUE,
                                          wrote |-> IF entry = "dump_evaluation"
                                                    THEN eval_dict ELSE "nothing",
                                          done_before |-> _evaluation_done,
                                          done_after |-> TRUE])
               /\ entry' = "none"
               /\ epc' = "idle"
               /\ UNCHANGED <<eval_config, _current_bootstrap_step, eval_dict,
                              model_training, grad_enabled, mean_dict, running_metrics,
                              bootstrap_step, sample_step, drawn>>
    /\ UNCHANGED <<beam_vars, fwd_vars>>

NextEval ==
    \/ CallStartEvaluation
    \/ CallDumpEvaluation
    \/ BootstrapBegin
    \/ SampleStep
    \/ FillMeanDict
    \/ ComputeMeanVariance

InitEval == EvalStart /\ BeamOff /\ ForwardOff

SpecEval == InitEval /\ [][NextEval]_vars

\* ------------------------------------------------------- the whole program
Init == InitBeam \/ InitForward \/ InitEval

Next == NextBeam \/ NextForward \/ NextEval

Spec == Init /\ [][Next]_vars

\* ------------------------------------------------- claims: recognize_beam
Count(seq, h) == Cardinality({p \in 1..Len(seq) : seq[p] = h})

\* The tokens the model chose: the sequence without the start token and, for a
\* hypothesis that lasted to the final step, without the forced end token.
Generated(hyp) ==
    IF Len(hyp.yseq) = maxlen + 2
    THEN SubSeq(hyp.yseq, 2, maxlen + 1)
    ELSE SubSeq(hyp.yseq, 2, Len(hyp.yseq))

\* C1: with beam_size >= 1, nbest >= 1 and maxlen >= 1 the list recognize_beam
\* returns is never empty, whatever the model scores.
C1_NonEmptyResult ==
    (bpc = "done" /\ beam >= 1 /\ nbest >= 1 /\ maxlen >= 1) => Len(nbest_hyps) >= 1

\* C1 witness: a finished run in which the end token was never among the topk
\* candidates, so every returned hypothesis ends only by the forced end token.
C1_Witness ==
    /\ bpc = "done"
    /\ ~eos_in_topk
    /\ maxlen >= 2
    /\ Len(nbest_hyps) >= 1
    /\ \A p \in 1..Len(nbest_hyps) :
          /\ Len(nbest_hyps[p].yseq) = maxlen + 2
          /\ \A q \in 1..(maxlen + 1) : nbest_hyps[p].yseq[q] # eos_id

\* C2: the returned list is sorted by score descending, has exactly
\* min(len(ended_hyps), nbest) entries, and these are highest-scoring ended
\* hypotheses: each is an ended hypothesis, and an ended hypothesis that was left
\* out scores no higher than any returned one.
C2_SortedTopNBest ==
    bpc = "done" =>
        /\ \A p \in 1..(Len(nbest_hyps) - 1) : nbest_hyps[p].score >= nbest_hyps[p + 1].score
        /\ Len(nbest_hyps) = Min2(Len(ended_hyps), nbest)
        /\ \A p \in 1..Len(nbest_hyps) :
              Count(nbest_hyps, nbest_hyps[p]) <= Count(ended_hyps, nbest_hyps[p])
        /\ \A q \in 1..Len(ended_hyps) :
              \/ Count(nbest_hyps, ended_hyps[q]) = Count(ended_hyps, ended_hyps[q])
              \/ \A p \in 1..Len(nbest_hyps) : ended_hyps[q].score <= nbest_hyps[p].score

\* C2 witness: more ended hypotheses than nbest, collected out of score order,
\* and at least two returned.
C2_Witness ==
    /\ bpc = "done"
    /\ Len(ended_hyps) > nbest
    /\ Len(nbest_hyps) >= 2
    /\ \E p, q \in 1..Len(ended_hyps) : p < q /\ ended_hyps[p].score < ended_hyps[q].score
    /\ nbest_hyps[1].score > nbest_hyps[2].score

\* C3 as stated: with decode_max_len = 3 and the end token never among the topk
\* candidates, min(beam_size, nbest) hypotheses are returned, each of length 4.
C3_Original ==
    (bpc = "done" /\ maxlen = 3 /\ ~eos_in_topk) =>
        /\ Len(nbest_hyps) = Min2(beam, nbest)
        /\ \A p \in 1..Len(nbest_hyps) : Len(nbest_hyps[p].yseq) = 4

\* C3 amended: under the same conditions min(beam_size, nbest) hypotheses are
\* returned, each of length 5: the start token, 3 generated tokens, none of them
\* the end token, and the forced end token.
C3_ForcedLength ==
    (bpc = "done" /\ maxlen = 3 /\ ~eos_in_topk) =>
        /\ Len(nbest_hyps) = Min2(beam, nbest)
        /\ \A p \in 1..Len(nbest_hyps) :
              /\ Len(nbest_hyps[p].yseq) = 5
              /\ nbest_hyps[p].yseq[1] = sos_id
              /\ \A q \in 2..4 : nbest_hyps[p].yseq[q] # eos_id
              /\ nbest_hyps[p].yseq[5] = eos_id

\* C3 witness: such a run with beam_size 2 and nbest 2, two hypotheses returned.
C3_Witness ==
    /\ bpc = "done" /\ maxlen = 3 /\ ~eos_in_topk
    /\ beam = 2 /\ nbest = 2
    /\ Len(nbest_hyps) = 2
    /\ nbest_hyps[1].yseq # nbest_hyps[2].yseq

\* C4: with beam_size = 1 one hypothesis is returned, and it is a greedy decoding:
\* every generated token has the highest local score of the distribution computed
\* from its prefix, no generated token before the last is the end token, and the
\* generation stopped at the first end token or at maxlen tokens.
C4_BeamOneIsGreedy ==
    (bpc = "done" /\ beam = 1) =>
        /\ Len(nbest_hyps) = 1
        /\ nbest_hyps[1].argmax_path
        /\ nbest_hyps[1].yseq[1] = sos_id
        /\ LET g == Generated(nbest_hyps[1])
           IN /\ Len(g) >= 1 /\ Len(g) <= maxlen
              /\ \A q \in 1..(Len(g) - 1) : g[q] # eos_id
              /\ (Len(g) = maxlen \/ g[Len(g)] = eos_id)
              /\ (Len(g) < maxlen => Len(nbest_hyps[1].yseq) = Len(g) + 1)

\* C4 witness: a beam_size 1 run that generated a token and then the end token
\* before the step cap.
C4_Witness ==
    /\ bpc = "done" /\ beam = 1 /\ maxlen = 3
    /\ Len(nbest_hyps) = 1
    /\ Len(nbest_hyps[1].yseq) = 3
    /\ nbest_hyps[1].yseq[2] # eos_id
    /\ nbest_hyps[1].yseq[3] = eos_id

\* All hypotheses alive in the state: active, kept candidates, ended, returned.
AllHyps ==
    {hyps[p] : p \in 1..Len(hyps)} \cup {hyps_best_kept[p] : p \in 1..Len(hyps_best_kept)}
    \cup {ended_hyps[p] : p \in 1..Len(ended_hyps)}
    \cup {nbest_hyps[p] : p \in 1..Len(nbest_hyps)}

\* The active hypotheses at the head of step i were produced by i steps, the
\* candidates of step i by i + 1, the ended ones by 1..i steps.
GenerationsInStep ==
    /\ \A p \in 1..Len(hyps) : hyps[p].gen = i
    /\ \A p \in 1..Len(hyps_best_kept) : hyps_best_kept[p].gen = i + 1
    /\ \A p \in 1..Len(ended_hyps) : ended_hyps[p].gen >= 1 /\ ended_hyps[p].gen <= i

\* C11 as stated: every hypothesis's token sequence length is its generation
\* index + 1: 1 for the initial hypothesis, i + 2 for one produced at step i, also
\* at the final step.
C11_Original ==
    /\ GenerationsInStep
    /\ \A h \in AllHyps : Len(h.yseq) = h.gen + 1

\* C11 amended: the length is the generation index + 1 for every hypothesis except
\* those that survive the pruning of the final step maxlen - 1: they get the
\* forced end token besides the generated one and have length maxlen + 2.
C11_LengthByGeneration ==
    /\ GenerationsInStep
    /\ \A p \in 1..Len(hyps) : Len(hyps[p].yseq) = hyps[p].gen + 1
    /\ \A p \in 1..Len(hyps_best_kept) :
          Len(hyps_best_kept[p].yseq) = hyps_best_kept[p].gen + 1
    /\ \A p \in 1..Len(ended_hyps) :
          Len(ended_hyps[p].yseq) =
              IF ended_hyps[p].gen = maxlen THEN maxlen + 2 ELSE ended_hyps[p].gen + 1
    /\ \A p \in 1..Len(nbest_hyps) :
          Len(nbest_hyps[p].yseq) =
              IF nbest_hyps[p].gen = maxlen THEN maxlen + 2 ELSE nbest_hyps[p].gen + 1

\* C11 witness: a finished run that ended one hypothesis at step 0 and another at
\* the final step 2.
C11_Witness ==
    /\ bpc = "done" /\ maxlen = 3
    /\ \E p, q \in 1..Len(ended_hyps) :
          /\ ended_hyps[p].gen = 1 /\ Len(ended_hyps[p].yseq) = 2
          /\ ended_hyps[q].gen = 3 /\ Len(ended_hyps[q].yseq) = 5

\* The state right after the pruning and partition of a decode step.
AfterPartition == bpc = "loop" /\ i >= 1 /\ hyp_idx = 0 /\ hyps_best_kept = <<>>

\* The hypotheses the partition of the step just finished moved to ended_hyps.
EndedInLastStep == SelectSeq(ended_hyps, LAMBDA h : h.gen = i)

\* C12 as stated: after the pruning and partition of every decode step the
\* completed set plus the remaining active set never exceeds beam_size.
C12_Original ==
    AfterPartition => Len(ended_hyps) + Len(hyps) <= beam

\* C12 amended: the pruned candidates never exceed beam_size, and after the
\* partition of a step the hypotheses that step moved to the completed set plus
\* the remaining active set never exceed beam_size; the completed set itself
\* accumulates over the steps and is not bounded by beam_size.
C12_StepWithinBeam ==
    /\ Len(hyps_best_kept) <= beam
    /\ Len(hyps) <= beam
    /\ AfterPartition => Len(EndedInLastStep) + Len(hyps) <= beam

\* C12 witness: after a partition that fills the beam, with an earlier ended
\* hypothesis making completed plus active larger than the beam.
C12_Witness ==
    /\ AfterPartition
    /\ Len(EndedInLastStep) >= 1 /\ Len(hyps) >= 1
    /\ Len(EndedInLastStep) + Len(hyps) = beam
    /\ Len(ended_hyps) + Len(hyps) > beam

\* Work left in the call: the iterations still to run, each of them at most beam
\* expansions and the end of the step, and the return.
WorkLeft ==
    IF bpc = "loop"
    THEN (maxlen - i) * (beam + 1) + (Len(hyps) - hyp_idx) + 1
    ELSE 0

\* The guards of Expand, EndStep and Return: the loop has a step to take.
LoopCanStep ==
    \/ i < maxlen /\ hyp_idx < Len(hyps)
    \/ i < maxlen /\ hyp_idx = Len(hyps)
    \/ i = maxlen

\* C13: the decode loop ends after exactly maxlen iterations, maxlen being
\* decode_max_len when that is non-zero and the encoder output length when it is
\* 0.  The call terminates: while it is in the loop a step is possible and every
\* step uses up work left, which is never negative.  The iteration counter never
\* passes maxlen, and the loop is left only at i = maxlen, also when no active
\* hypothesis remains.
C13_ExactlyMaxlenIterations ==
    /\ [](maxlen = IF decode_max_len = 0 THEN enc_len ELSE decode_max_len)
    /\ [](i <= maxlen /\ WorkLeft >= 0)
    /\ [](bpc = "loop" => LoopCanStep)
    /\ [][WorkLeft' < WorkLeft]_vars
    /\ [][bpc' = "done" => i = maxlen /\ i' = maxlen]_vars
    /\ [](bpc = "done" => i = maxlen)

\* C13 witness: a call with the cap 0 on an utterance of length 2 has returned
\* after 2 iterations, the second of them with no active hypothesis left.
C13_Witness ==
    /\ bpc = "done" /\ decode_max_len = 0 /\ enc_len = 2 /\ i = 2
    /\ \A p \in 1..Len(ended_hyps) : ended_hyps[p].gen = 1

\* A decoder step on one hypothesis leaves every active hypothesis as it was:
\* token sequence, score, and the hidden and cell lists with their contents.
ParentsUnchanged == hyp_idx' = hyp_idx + 1 => hyps' = hyps

\* No two distinct hypotheses hold the same list of hidden or cell tensors, the
\* same hidden or cell tensors, or attention tensors on the same storage.
NoSharedState ==
    \A h1, h2 \in AllHyps :
        h1.yseq # h2.yseq =>
            /\ ~(h1.h_prev.obj = "h_list" /\ h2.h_prev.obj = "h_list")
            /\ ~(h1.c_prev.obj = "c_list" /\ h2.c_prev.obj = "c_list")
            /\ h1.h_prev.items # h2.h_prev.items
            /\ h1.c_prev.items # h2.c_prev.items
            /\ h1.a_prev.storage # h2.a_prev.storage

\* C14 as stated: extending a hypothesis never mutates the parent in place, the
\* initial hypothesis included, and never aliases state: no two distinct
\* hypotheses hold the same hidden, cell or attention state object.
C14_Original ==
    /\ [][ParentsUnchanged]_vars
    /\ []NoSharedState

\* C17 as stated: every ended hypothesis, and so every returned one, holds the end
\* token exactly once, as its last element, also when the token the model chose
\* on the final step is the end token; and no active hypothesis at the start of
\* a step ends with the end token.
C17_Original ==
    /\ \A p \in 1..Len(ended_hyps) :
          /\ Count(ended_hyps[p].yseq, eos_id) = 1
          /\ ended_hyps[p].yseq[Len(ended_hyps[p].yseq)] = eos_id
    /\ \A p \in 1..Len(nbest_hyps) :
          /\ Count(nbest_hyps[p].yseq, eos_id) = 1
          /\ nbest_hyps[p].yseq[Len(nbest_hyps[p].yseq)] = eos_id
    /\ \A p \in 1..Len(hyps) : hyps[p].yseq[Len(hyps[p].yseq)] # eos_id

C6_Original ==
    \A k \in 1..Len(calls) :
        (calls[k].op = "dump_evaluation" /\ ~calls[k].done_before) =>
            /\ calls[k].ran_evaluation
            /\ calls[k].outcome = "returned"
            /\ calls[k].done_after
            /\ calls[k].wrote # "nothing"

\* C7 as stated: of two dump_evaluation calls in a row, the second does not run
\* the evaluation again and writes the same evaluation result as the first.
C7_Original ==
    \A k \in 1..(Len(calls) - 1) :
        (calls[k].op = "dump_evaluation" /\ calls[k + 1].op = "dump_evaluation") =>
            /\ ~calls[k + 1].ran_evaluation
            /\ calls[k].wrote # "nothing"
            /\ calls[k + 1].wrote = calls[k].wrote

\* C8 as stated: with num_bootstraps = 5, bootstrap_size = 10 and the metric that
\* always returns 1, an evaluation run that has ended has stored a mean of 1 and a
\* variance of 0 for the metric.
C8_Original ==
    \A k \in 1..Len(calls) :
        (/\ num_bootstraps = 5
         /\ bootstrap_size = 10
         /\ "constant_one" \in Names(metrics)
         /\ calls[k].ran_evaluation) =>
            /\ calls[k].outcome = "returned"
            /\ eval_dict # "unset"
            /\ eval_dict["constant_one_mean"] = 1
            /\ eval_dict["constant_one_variance"] = 0

\* C9: in every bootstrap iteration one sample is drawn per step of the sample
\* loop, every metric's accumulator holds one value per sample drawn, and when the
\* loop is exhausted exactly bootstrap_size samples were drawn and every
\* accumulator holds exactly bootstrap_size values.
C9_SamplesPerIteration ==
    epc = "sample" =>
        /\ drawn = sample_step
        /\ drawn <= bootstrap_size
        /\ DOMAIN running_metrics = Names(metrics)
        /\ \A m \in Names(metrics) : Len(running_metrics[m]) = drawn
        /\ sample_step = bootstrap_size =>
              /\ drawn = bootstrap_size
              /\ \A m \in Names(metrics) : Len(running_metrics[m]) = bootstrap_size

\* C9 witness: the second iteration over a single-example dataset, exhausted after
\* three draws, with two metrics.
C9_Witness ==
    /\ epc = "sample"
    /\ dataset_size = 1
    /\ bootstrap_size = 3
    /\ bootstrap_step = 1
    /\ sample_step = bootstrap_size
    /\ drawn = 3
    /\ Len(metrics) = 2
    /\ running_metrics["constant_one"] = <<1, 1, 1>>


\* The model is about to be run on a sample: the body of the sample loop.
ModelInvoked == epc = "sample" /\ sample_step < bootstrap_size

\* C15 as stated: whenever the model is run on a sample inside a bootstrap
\* iteration it is in evaluation mode and gradient tracking is disabled.
C15_Original ==
    ModelInvoked => (~model_training /\ ~grad_enabled)

\* C16 as stated: an evaluation that aggregates over an empty accumulator, with
\* num_bootstraps = 0 or with bootstrap_size = 0 and a metric configured, fails
\* with DegenerateAggregation and with no other error, stores nothing in the
\* evaluation result and is not marked done.
C16_Original ==
    \A k \in 1..Len(calls) :
        (/\ calls[k].ran_evaluation
         /\ metrics # <<>>
         /\ (num_bootstraps = 0 \/ bootstrap_size = 0)) =>
            /\ calls[k].outcome = "DegenerateAggregation"
            /\ ~calls[k].done_after
            /\ eval_dict = "unset"

\* ------------------------------------------------------- claims: forward
\* len(y): the entries of a padded target row that are not the ignore value.
NonIgnored(row) == Cardinality({p \in 1..Len(row) : row[p] # IGNORE_ID})

\* C10: when forward returns, the stacked predictions have max over the batch of
\* len(y) + 1 decode steps as their second dimension, every reported length is
\* len(y) + 1, and the padded input and output token matrices have one shape.
C10_ForwardLengths ==
    fpc = "returned" =>
        LET n_batch == Len(padded_input)
            longest == Max({NonIgnored(padded_input[n]) + 1 : n \in 1..n_batch})
        IN /\ Len(model_out) = n_batch
           /\ \A n \in 1..n_batch : Len(model_out[n]) = longest
           /\ Len(y_lens) = n_batch
           /\ \A n \in 1..n_batch : y_lens[n] = NonIgnored(padded_input[n]) + 1
           /\ Size(ys_in_pad) = Size(ys_out_pad)
           /\ Size(ys_in_pad) = <<n_batch, longest>>

\* C10 witness: a returned batch of two targets of different lengths, one with an
\* ignore value before a token.
C10_Witness ==
    /\ fpc = "returned"
    /\ Len(padded_input) = 2
    /\ padded_input[1] = <<IGNORE_ID, 0>>
    /\ NonIgnored(padded_input[2]) = 2
    /\ y_lens = <<2, 3>>
    /\ Len(model_out[1]) = 3

====
